---- MODULE Spec2Model ----
(***************************************************************************)
(* Command-T matcher (ruby/command-t/matcher.c): the Matcher constructor,  *)
(* the two qsort comparators, the match_thread worker and the              *)
(* sorted_matches_for call, as a state machine.                            *)
(*                                                                         *)
(* Ruby strings are sequences of bytes (RSTRING_PTR / RSTRING_LEN), so     *)
(* that downcase and strncmp are computed on bytes and not assumed.        *)
(* A score (double) is a small integer: the code only compares scores      *)
(* with each other and with 0.0.                                           *)
(***************************************************************************)
EXTENDS Integers, Sequences, FiniteSets

(***************************************************************************)
(* Bounds of the model.                                                    *)
(***************************************************************************)
\* Longest candidate sequence the scanner returns.
MaxPaths == 5
\* Every candidate sequence of at most this length is an input.
MaxShort == 2
\* Largest integer passed as the limit option.
MaxLimit == 2
\* Scores the scorer returns are in 0..MaxScore.
MaxScore == 2
\* THREAD_THREADHOLD (matcher.c:154) is 1000 in the source; the model uses
\* this scaled value so that both sides of `path_count < THREAD_THREADHOLD`
\* are taken by candidate sequences of at most MaxPaths paths.
THREAD_THREADHOLD == 4

(***************************************************************************)
(* Values.                                                                 *)
(***************************************************************************)
\* Bytes used below: 97 'a', 98 'b', 99 'c', 46 '.', 65 'A'.

\* A Ruby VALUE that is nil or a String.
Qnil == [nil |-> TRUE, str |-> <<>>]

RString(bytes) == [nil |-> FALSE, str |-> bytes]

NIL_P(v) == v.nil

\* candidate paths: "ab", "abc", "b"
PathUniverse == { <<97, 98>>, <<97, 98, 99>>, <<98>> }

\* abbreviations a caller passes: "", ".", "a", "A"
Abbrevs == { <<>>, <<46>>, <<97>>, <<65>> }

AbbrevArgs == { Qnil } \cup { RString(a) : a \in Abbrevs }

\* The value of the "limit" option: absent (nil), an Integer, or an object
\* that NUM2LONG cannot convert (a String).
LimitOptions ==
    { [kind |-> "nil", n |-> 0], [kind |-> "str", n |-> 0] }
        \cup { [kind |-> "int", n |-> k] : k \in 0..MaxLimit }

\* The dot-file options a Matcher is constructed with (the values
\* CommandT_option_from_hash finds in the options hash).
ConstructorOptions ==
    { [always_show_dot_files |-> "true", never_show_dot_files |-> "false"] }

ScannerArgs == { "nil", "scanner" }

\* All sequences over S of length n.
SeqsOfLen(S, n) == [1..n -> S]

\* The three paths in a fixed order, to build the long candidate sequences.
PathCycle == << <<97, 98, 99>>, <<98>>, <<97, 98>> >>

CyclicSeq(n, start, step) ==
    [k \in 1..n |-> PathCycle[((start + step * k) % 3) + 1]]

\* What the scanner's paths() may return: every sequence of at most MaxShort
\* paths, and for the lengths above MaxShort up to MaxPaths the sequences
\* that cycle through the three paths (either direction, any start), which
\* hold every path and, from length 4 on, duplicates.
PathSeqs ==
    UNION { SeqsOfLen(PathUniverse, n) : n \in 0..MaxShort }
        \cup { CyclicSeq(n, s, d) :
                 n \in (MaxShort + 1)..MaxPaths, s \in 0..2, d \in {1, 2} }

ScoreVals == 0..MaxScore

Min(a, b) == IF a < b THEN a ELSE b

(***************************************************************************)
(* State.                                                                  *)
(***************************************************************************)
VARIABLES
    \* the build: TRUE when compiled with USE_THREADS (matcher.c:24,153,191)
    USE_THREADS,
    \* the external scorer (CommandTMatch_initialize, match.c), a fixed
    \* deterministic function for the whole behaviour
    scorer,
    \* the scanner: the candidate sequence its paths() returns now
    candidates,
    \* the Matcher object
    constructed,              \* "no", "ok", or "error" (initialize raised)
    scanner,                  \* @scanner
    always_show_dot_files,    \* @always_show_dot_files
    never_show_dot_files,     \* @never_show_dot_files
    \* one sorted_matches_for call
    pc,                       \* where the calling thread is
    abbrev_arg,               \* the abbrev argument as passed
    abbrev,                   \* the local `abbrev` (after downcase)
    paths,                    \* the array returned by scanner.paths()
    path_count,
    matches,                  \* the match_t buffer
    written,                  \* indices of `matches` stored so far
    stores,                   \* per slot, the workers that stored to it
    allocated,                \* live malloc blocks of this call
    thread_count,
    i,                        \* loop variable of the create and join loops
    workers,                  \* per worker: status and loop variable
    limit_option,             \* the limit option as read by the collector
    retval,                   \* what the caller receives
    error,                    \* the exception raised, "none" if none
    \* observation of the call's effects on its collaborators
    paths_calls,              \* calls of scanner.paths() in this call
    scorer_args               \* (abbrev, always, never) given to the scorer

vars ==
    << USE_THREADS, scorer, candidates, constructed, scanner,
       always_show_dot_files, never_show_dot_files, pc, abbrev_arg, abbrev,
       paths, path_count, matches, written, stores, allocated, thread_count,
       i, workers, limit_option, retval, error, paths_calls, scorer_args >>

\* int thread_count = 4 (matcher.c:156)
DefaultThreadCount == 4

WorkerIds == 0..(DefaultThreadCount - 1)

\* An unstored slot of the malloc'ed buffer. Its content is indeterminate
\* in C; no reachable state reads one (see AllSlotsWritten below).
Indeterminate == [path |-> <<>>, score |-> 0]

NoWorkers == [k \in WorkerIds |-> [status |-> "unborn", i |-> 0]]

NoValue == [returned |-> FALSE, ary |-> <<>>]

Returned(ary) == [returned |-> TRUE, ary |-> ary]

NoLimit == [kind |-> "unread", n |-> 0]

(***************************************************************************)
(* Strings.                                                                *)
(***************************************************************************)
\* the abbreviation used as passed, without downcase
downcase_missing(s) == s

\* String#downcase on ASCII bytes
downcase(s) ==
    [k \in DOMAIN s |-> IF s[k] \in 65..90 THEN s[k] + 32 ELSE s[k]]

\* strncmp(a, b, n) from position k (1-based): the difference of the first
\* differing bytes, 0 when the first n bytes agree or a NUL ends both.
\* A Ruby string is NUL-terminated, so the byte after the last one is 0.
ByteAt(s, k) == IF k <= Len(s) THEN s[k] ELSE 0

RECURSIVE strncmpFrom(_, _, _, _)
strncmpFrom(a, b, n, k) ==
    IF k > n THEN 0
    ELSE IF ByteAt(a, k) # ByteAt(b, k) THEN ByteAt(a, k) - ByteAt(b, k)
    ELSE IF ByteAt(a, k) = 0 THEN 0
    ELSE strncmpFrom(a, b, n, k + 1)

strncmp(a, b, n) == strncmpFrom(a, b, n, 1)

(***************************************************************************)
(* The comparators.                                                        *)
(***************************************************************************)
\* comp_alpha without the two `if (order == 0)` corrections: strings that
\* agree on the shared prefix compare equal whatever their lengths.
comp_alpha_prefix_only(a, b) ==
    strncmp(a.path, b.path, Min(Len(a.path), Len(b.path)))

\* comp_alpha with strncmp given a length of 1: paths are ordered by their
\* first byte only.
comp_alpha_first_byte(a, b) == strncmp(a.path, b.path, 1)

\* comp_alpha with -1 in both corrections: of two paths that agree on the
\* shared prefix, each is before the other.
comp_alpha_same_correction(a, b) ==
    LET a_len == Len(a.path)
        b_len == Len(b.path)
    IN  IF a_len # b_len
        THEN LET order == strncmp(a.path, b.path, Min(a_len, b_len))
             IN  IF order = 0 THEN -1 ELSE order
        ELSE strncmp(a.path, b.path, a_len)

comp_alpha(a, b) ==
    LET a_len == Len(a.path)
        b_len == Len(b.path)
    IN  IF a_len > b_len
        THEN LET order == strncmp(a.path, b.path, b_len)
             IN  IF order = 0 THEN 1 ELSE order
        ELSE IF a_len < b_len
        THEN LET order == strncmp(a.path, b.path, a_len)
             IN  IF order = 0 THEN -1 ELSE order
        ELSE strncmp(a.path, b.path, a_len)

\* comp_score without the fall-back to comp_alpha: equal scores compare
\* equal.
comp_score_without_tie_break(a, b) ==
    IF a.score > b.score THEN -1
    ELSE IF a.score < b.score THEN 1
    ELSE 0

comp_score(a, b) ==
    IF a.score > b.score THEN -1
    ELSE IF a.score < b.score THEN 1
    ELSE comp_alpha(a, b)

\* The comparator passed to qsort (matcher.c:205-211).
SortPolicy(ab) ==
    IF Len(ab) = 0 \/ (Len(ab) = 1 /\ ab[1] = 46) THEN "alpha" ELSE "score"

Compare(policy, a, b) ==
    IF policy = "alpha" THEN comp_alpha(a, b) ELSE comp_score(a, b)

\* qsort(base, n, size, compar): the array is left holding the same elements
\* in an order that agrees with compar; the order of elements that compare
\* equal is unspecified, so every such arrangement is an outcome.
RECURSIVE Arrangements(_, _, _)
Arrangements(buf, idxs, policy) ==
    IF idxs = {} THEN { <<>> }
    ELSE LET least == { m \in idxs :
                          \A x \in idxs : Compare(policy, buf[m], buf[x]) <= 0 }
             \* one index for each distinct element that may come first
             firsts == { CHOOSE m \in least : buf[m] = v :
                           v \in { buf[m] : m \in least } }
         IN  UNION { { <<buf[m]>> \o t :
                         t \in Arrangements(buf, idxs \ {m}, policy) } :
                     m \in firsts }

qsort(buf, n, policy) == Arrangements(buf, 1..n, policy)

(***************************************************************************)
(* The scorer (CommandTMatch_initialize, match.c): a black box that is     *)
(* deterministic in (path, abbrev, always_show_dot_files,                  *)
(* never_show_dot_files). `scorer` is any table of scores over the paths;  *)
(* the abbreviation and the flags rotate it, so that a call with other     *)
(* arguments scores the same paths differently.                            *)
(***************************************************************************)
RECURSIVE SumBytes(_)
SumBytes(s) == IF s = <<>> THEN 0 ELSE Head(s) + SumBytes(Tail(s))

ScorerKey(ab, always, never) ==
    SumBytes(ab) + (IF always = "true" THEN 1 ELSE 0)
                 + (IF never = "true" THEN 2 ELSE 0)

CommandTMatch_initialize(path, ab, always, never) ==
    [path  |-> path,
     score |-> (scorer[path] + ScorerKey(ab, always, never)) % (MaxScore + 1)]

(***************************************************************************)
(* Init: a build, a scorer, and a Matcher not yet constructed.             *)
(***************************************************************************)
Init ==
    /\ USE_THREADS \in BOOLEAN
    /\ scorer \in [PathUniverse -> ScoreVals]
    /\ candidates = <<>>
    /\ constructed = "no"
    /\ scanner = "nil"
    /\ always_show_dot_files = "nil"
    /\ never_show_dot_files = "nil"
    /\ pc = "idle"
    /\ abbrev_arg = Qnil
    /\ abbrev = <<>>
    /\ paths = <<>>
    /\ path_count = 0
    /\ matches = <<>>
    /\ written = {}
    /\ stores = <<>>
    /\ allocated = {}
    /\ thread_count = 0
    /\ i = 0
    /\ workers = NoWorkers
    /\ limit_option = NoLimit
    /\ retval = NoValue
    /\ error = "none"
    /\ paths_calls = 0
    /\ scorer_args = {}

(***************************************************************************)
(* CommandTMatcher_initialize (matcher.c:77-97)                            *)
(***************************************************************************)
\* rb_raise: the call is left at once, nothing is returned.
MatcherUnchanged ==
    UNCHANGED << USE_THREADS, scorer, constructed, scanner,
                 always_show_dot_files, never_show_dot_files >>

CommandTMatcher_initialize ==
    /\ constructed # "ok"
    /\ pc = "idle"
    /\ \E scanner_arg \in ScannerArgs, options \in ConstructorOptions :
         IF scanner_arg = "nil"
         THEN /\ constructed' = "error"
              /\ UNCHANGED << scanner, always_show_dot_files,
                              never_show_dot_files >>
         ELSE /\ constructed' = "ok"
              /\ scanner' = scanner_arg
              /\ always_show_dot_files' = options.always_show_dot_files
              /\ never_show_dot_files' = options.never_show_dot_files
    /\ UNCHANGED << USE_THREADS, scorer, candidates, pc, abbrev_arg, abbrev,
                    paths, path_count, matches, written, stores, allocated,
                    thread_count, i, workers, limit_option, retval, error,
                    paths_calls, scorer_args >>

(***************************************************************************)
(* CommandTMatcher_sorted_matches_for (matcher.c:126-227)                  *)
(***************************************************************************)
CallOver == pc \in { "returned", "raised" }

\* rb_raise(klass, ...): control leaves the function; no statement after the
\* raise runs, so nothing is freed and no thread is joined.
Raise(klass) ==
    /\ pc' = "raised"
    /\ error' = klass

\* The scanner's candidate set changes between two calls (files appear and
\* disappear; the scanner is flushed and rescans).
ScannerChange ==
    /\ pc = "idle"
    /\ candidates' \in PathSeqs \ { candidates }
    /\ UNCHANGED << pc, abbrev_arg, abbrev, paths, path_count, matches,
                    written, stores, allocated, thread_count, i, workers,
                    limit_option, retval, error, paths_calls, scorer_args >>
    /\ MatcherUnchanged

\* the array of the scanner taken without its last element
ScannerPaths_all_but_last ==
    SubSeq(candidates, 1, Len(candidates) - 1)

\* rb_funcall(scanner, rb_intern("paths"), 0) (line 144): what the scanner
\* returns now
ScannerPaths == candidates

\* the nil check made after scanner.paths() and the malloc of the buffer
NilAbbrev_checked_late ==
    /\ Raise("ArgumentError")
    /\ paths_calls' = 1
    /\ paths' = ScannerPaths
    /\ path_count' = Len(ScannerPaths)
    /\ matches' = [k \in 1..Len(ScannerPaths) |-> Indeterminate]
    /\ stores' = [k \in 1..Len(ScannerPaths) |-> <<>>]
    /\ allocated' = { "matches" }
    /\ UNCHANGED abbrev

\* Lines 133-134: a nil abbrev raises before anything else is done.
NilAbbrev ==
    /\ Raise("ArgumentError")
    /\ UNCHANGED << abbrev, paths, path_count, paths_calls, matches, stores,
                    allocated >>

\* Lines 131-151: argument check, downcase, scanner.paths(), malloc of the
\* match buffer. malloc may fail.
Enter ==
    /\ constructed = "ok"
    /\ pc = "idle"
    /\ \E arg \in AbbrevArgs :
         /\ abbrev_arg' = arg
         /\ IF NIL_P(arg)
            THEN NilAbbrev
            ELSE /\ abbrev' = downcase(arg.str)
                 /\ paths_calls' = 1
                 /\ paths' = ScannerPaths
                 /\ path_count' = Len(ScannerPaths)
                 /\ \/ /\ matches' = [k \in 1..path_count' |-> Indeterminate]
                       /\ stores' = [k \in 1..path_count' |-> <<>>]
                       /\ allocated' = { "matches" }
                       /\ pc' = "allocated"
                       /\ error' = "none"
                    \/ /\ matches' = <<>>
                       /\ stores' = <<>>
                       /\ allocated' = {}
                       /\ Raise("NoMemoryError")
    /\ UNCHANGED << candidates, written, thread_count, i, workers,
                    limit_option, retval, scorer_args >>
    /\ MatcherUnchanged

\* Lines 192-202, the build without USE_THREADS: one thread_args_t on the
\* stack, {1, 0, ...}, and match_thread run on the calling thread.
SingleThreaded ==
    /\ pc = "allocated"
    /\ ~USE_THREADS
    /\ thread_count' = 1
    /\ workers' = [workers EXCEPT ![0] = [status |-> "running", i |-> 0]]
    /\ pc' = "inline"
    /\ UNCHANGED << abbrev_arg, abbrev, candidates, paths, path_count,
                    matches, written, stores, allocated, i,
                    limit_option, retval, error, paths_calls, scorer_args >>
    /\ MatcherUnchanged

\* the test of line 157 with <= in place of <
ThreadCountFor_at_threshold_too(n) ==
    IF n <= THREAD_THREADHOLD THEN 1 ELSE DefaultThreadCount

\* Lines 156-158
ThreadCountFor(n) == IF n < THREAD_THREADHOLD THEN 1 ELSE DefaultThreadCount

\* Lines 155-164: the thread count and the two bookkeeping arrays; either
\* malloc may fail.
AllocateThreads ==
    /\ pc = "allocated"
    /\ USE_THREADS
    /\ thread_count' = ThreadCountFor(path_count)
    /\ i' = 0
    /\ \/ /\ allocated' = allocated \cup { "threads", "thread_args" }
          /\ pc' = "create"
          /\ UNCHANGED error
       \/ /\ UNCHANGED allocated                     \* malloc of threads fails
          /\ Raise("NoMemoryError")
       \/ /\ allocated' = allocated \cup { "threads" }  \* of thread_args fails
          /\ Raise("NoMemoryError")
    /\ UNCHANGED << abbrev_arg, abbrev, candidates, paths, path_count,
                    matches, written, stores, workers, limit_option, retval,
                    paths_calls, scorer_args >>
    /\ MatcherUnchanged

\* the loop started one past thread_index
MatchThreadStart_plus_one(thread_index) == thread_index + 1

\* thread_args[i].thread_index = i (line 167) is where match_thread starts
\* (line 113)
MatchThreadStart(thread_index) == thread_index

\* Lines 165-174, 178-179: worker i < thread_count - 1 is created and runs
\* concurrently from now on.
pthread_create ==
    /\ pc = "create"
    /\ i < thread_count - 1
    /\ workers' = [workers EXCEPT
                     ![i] = [status |-> "running", i |-> MatchThreadStart(i)]]
    /\ i' = i + 1
    /\ UNCHANGED << pc, abbrev_arg, abbrev, candidates, paths, path_count,
                    matches, written, stores, allocated,
                    thread_count, limit_option, retval, error, paths_calls,
                    scorer_args >>
    /\ MatcherUnchanged

\* Lines 179-181: pthread_create returns an error.
pthread_create_failure ==
    /\ pc = "create"
    /\ i < thread_count - 1
    /\ Raise("SystemCallError")
    /\ UNCHANGED << abbrev_arg, abbrev, candidates, paths, path_count,
                    matches, written, stores, allocated,
                    thread_count, i, workers, limit_option, retval,
                    paths_calls, scorer_args >>
    /\ MatcherUnchanged

\* Lines 175-177: the last worker is the calling thread itself.
InlineWorker ==
    /\ pc = "create"
    /\ i = thread_count - 1
    /\ workers' = [workers EXCEPT
                     ![i] = [status |-> "running", i |-> MatchThreadStart(i)]]
    /\ pc' = "inline"
    /\ UNCHANGED << abbrev_arg, abbrev, candidates, paths, path_count,
                    matches, written, stores, allocated,
                    thread_count, i, limit_option, retval, error, paths_calls,
                    scorer_args >>
    /\ MatcherUnchanged

(***************************************************************************)
(* match_thread (matcher.c:110-123)                                        *)
(***************************************************************************)
\* the stride taken from the default of 4 and not from args->thread_count
MatchThreadNext_fixed_stride(idx, count) == idx + DefaultThreadCount

\* the loop advanced by one: every worker walks all the slots after its
\* first
MatchThreadNext_by_one(idx, count) == idx + 1

\* i += args->thread_count (line 113)
MatchThreadNext(idx, count) == idx + count

\* &args->matches[i] (line 119): the slot the match of candidate idx goes to
MatchSlot(idx) == idx

\* When match_thread returns on the calling thread, control goes on after
\* the create loop: to the join loop (line 185), or to the sort in the
\* build without threads.
ReturnFrom(k, finished) ==
    IF finished /\ pc = "inline" /\ k = thread_count - 1
    THEN /\ pc' = IF USE_THREADS THEN "join" ELSE "sort"
         /\ i' = 0
    ELSE UNCHANGED << pc, i >>

\* One iteration of the loop: the match of candidate i is stored, i is
\* advanced, and the loop condition is evaluated; when it fails the
\* function returns (line 122) and the worker has finished.
match_thread(k) ==
    /\ workers[k].status = "running"
    /\ workers[k].i < path_count
    /\ LET idx  == workers[k].i
           path == paths[idx + 1]
           next == MatchThreadNext(idx, thread_count)
       IN  /\ matches' = [matches EXCEPT
                            ![MatchSlot(idx) + 1] =
                                CommandTMatch_initialize(path, abbrev,
                                    always_show_dot_files, never_show_dot_files)]
           /\ written' = written \cup { MatchSlot(idx) }
           /\ stores' = [stores EXCEPT
                           ![MatchSlot(idx) + 1] = Append(@, k)]
           /\ workers' = [workers EXCEPT
                            ![k] = [status |-> IF next < path_count
                                               THEN "running" ELSE "finished",
                                    i |-> next]]
           /\ ReturnFrom(k, next >= path_count)
    /\ scorer_args' = scorer_args \cup
           { << abbrev, always_show_dot_files, never_show_dot_files >> }
    /\ UNCHANGED << abbrev_arg, abbrev, candidates, paths, path_count,
                    allocated, thread_count, limit_option, retval, error,
                    paths_calls >>
    /\ MatcherUnchanged

\* The loop condition fails on entry (no candidate at thread_index) and
\* match_thread returns at once.
match_thread_return(k) ==
    /\ workers[k].status = "running"
    /\ workers[k].i >= path_count
    /\ workers' = [workers EXCEPT ![k].status = "finished"]
    /\ ReturnFrom(k, TRUE)
    /\ UNCHANGED << abbrev_arg, abbrev, candidates, paths, path_count,
                    matches, written, stores, allocated,
                    thread_count, limit_option, retval, error, paths_calls,
                    scorer_args >>
    /\ MatcherUnchanged

Worker == \E k \in WorkerIds : match_thread(k) \/ match_thread_return(k)

(***************************************************************************)
(* The join loop (matcher.c:185-190)                                       *)
(***************************************************************************)
\* a join that does not wait for the thread
pthread_join_returns_at_once(w) == TRUE

\* a join that waits for a thread other than the one that terminates
pthread_join_never_returns(w) == FALSE

\* pthread_join(thread, NULL) returns 0 once the thread has terminated.
pthread_join_returns(w) == w.status = "finished"

pthread_join ==
    /\ pc = "join"
    /\ i < thread_count - 1
    /\ pthread_join_returns(workers[i])
    /\ workers' = [workers EXCEPT ![i].status = "joined"]
    /\ i' = i + 1
    /\ UNCHANGED << pc, abbrev_arg, abbrev, candidates, paths, path_count,
                    matches, written, stores, allocated,
                    thread_count, limit_option, retval, error, paths_calls,
                    scorer_args >>
    /\ MatcherUnchanged

\* the error of pthread_join left unchecked: the loop goes on
pthread_join_failure_unchecked ==
    /\ pc = "join"
    /\ i < thread_count - 1
    /\ i' = i + 1
    /\ UNCHANGED << pc, abbrev_arg, abbrev, candidates, paths, path_count,
                    matches, written, stores, allocated,
                    thread_count, workers, limit_option, retval, error,
                    paths_calls, scorer_args >>
    /\ MatcherUnchanged

\* pthread_join returns an error (at once: EDEADLK, EINVAL, ESRCH).
pthread_join_failure ==
    /\ pc = "join"
    /\ i < thread_count - 1
    /\ Raise("SystemCallError")
    /\ UNCHANGED << abbrev_arg, abbrev, candidates, paths, path_count,
                    matches, written, stores, allocated,
                    thread_count, i, workers, limit_option, retval,
                    paths_calls, scorer_args >>
    /\ MatcherUnchanged

\* free(threads) (line 190)
FreeThreads ==
    /\ pc = "join"
    /\ i = thread_count - 1
    /\ allocated' = allocated \ { "threads" }
    /\ pc' = "sort"
    /\ UNCHANGED << abbrev_arg, abbrev, candidates, paths, path_count,
                    matches, written, stores, thread_count, i, workers,
                    limit_option, retval, error, paths_calls, scorer_args >>
    /\ MatcherUnchanged

(***************************************************************************)
(* Sort and collect (matcher.c:205-226)                                    *)
(***************************************************************************)
\* a sort that also puts the scanner's array in the order of the buffer
Sort_reorders_paths ==
    /\ pc = "sort"
    /\ matches' \in qsort(matches, path_count, SortPolicy(abbrev))
    /\ paths' = [k \in 1..path_count |-> matches'[k].path]
    /\ candidates' = paths'
    /\ pc' = "collect"
    /\ UNCHANGED << abbrev_arg, abbrev, path_count, written, stores,
                    allocated, thread_count, i, workers, limit_option,
                    retval, error, paths_calls, scorer_args >>
    /\ MatcherUnchanged

Sort ==
    /\ pc = "sort"
    /\ matches' \in qsort(matches, path_count, SortPolicy(abbrev))
    /\ pc' = "collect"
    /\ UNCHANGED << abbrev_arg, abbrev, candidates, paths, path_count,
                    written, stores, allocated, thread_count, i, workers,
                    limit_option, retval, error, paths_calls, scorer_args >>
    /\ MatcherUnchanged

\* the filter with >= in place of >
Emits_zero_too(m) == m.score >= 0

\* matches[i].score > 0.0 (line 219)
Emits(m) == m.score > 0

\* long limit = NIL_P(limit_option) ? 0 : NUM2LONG(limit_option);
\* if (limit == 0) limit = path_count;                  (lines 215-217)
InitialLimit(opt, n) ==
    LET limit == IF opt.kind = "nil" THEN 0 ELSE opt.n
    IN  IF limit = 0 THEN n ELSE limit

\* the collect loop with `limit >= 0` as its condition
RECURSIVE CollectLoop_one_more(_, _, _, _, _)
CollectLoop_one_more(buf, k, n, limit, results) ==
    IF k < n /\ limit >= 0
    THEN IF buf[k + 1].score > 0
         THEN CollectLoop_one_more(buf, k + 1, n, limit - 1,
                                   Append(results, buf[k + 1].path))
         ELSE CollectLoop_one_more(buf, k + 1, n, limit, results)
    ELSE results

\* for (long i = 0; i < path_count && limit > 0; i++)   (lines 218-223)
\* with k the C index i and `results` the array built so far
RECURSIVE CollectLoop(_, _, _, _, _)
CollectLoop(buf, k, n, limit, results) ==
    IF k < n /\ limit > 0
    THEN IF Emits(buf[k + 1])
         THEN CollectLoop(buf, k + 1, n, limit - 1,
                          Append(results, buf[k + 1].path))
         ELSE CollectLoop(buf, k + 1, n, limit, results)
    ELSE results

\* Lines 213-226. The limit option is an argument of the call that nothing
\* reads before line 215, so its value is drawn here, where NUM2LONG
\* converts it; NUM2LONG raises TypeError for an object that is no number.
Collect ==
    /\ pc = "collect"
    /\ \E opt \in LimitOptions :
         /\ limit_option' = opt
         /\ IF opt.kind = "str"
            THEN /\ Raise("TypeError")
                 /\ UNCHANGED << retval, allocated >>
            ELSE /\ retval' = Returned(CollectLoop(matches, 0, path_count,
                                          InitialLimit(opt, path_count), <<>>))
                 /\ allocated' = allocated \ { "matches" }
                 /\ pc' = "returned"
                 /\ UNCHANGED error
    /\ UNCHANGED << abbrev_arg, abbrev, candidates, paths, path_count,
                    matches, written, stores, thread_count, i, workers,
                    paths_calls, scorer_args >>
    /\ MatcherUnchanged

\* The caller has taken the result or the exception; the locals of the call
\* are gone and the Matcher waits for the next call.
Unwind ==
    /\ CallOver
    /\ pc' = "idle"
    /\ abbrev_arg' = Qnil
    /\ abbrev' = <<>>
    /\ paths' = <<>>
    /\ path_count' = 0
    /\ matches' = <<>>
    /\ written' = {}
    /\ stores' = <<>>
    /\ allocated' = {}
    /\ thread_count' = 0
    /\ i' = 0
    /\ workers' = NoWorkers
    /\ limit_option' = NoLimit
    /\ retval' = NoValue
    /\ error' = "none"
    /\ paths_calls' = 0
    /\ scorer_args' = {}
    /\ UNCHANGED candidates
    /\ MatcherUnchanged

Next ==
    \/ CommandTMatcher_initialize
    \/ ScannerChange
    \/ Enter
    \/ SingleThreaded
    \/ AllocateThreads
    \/ pthread_create
    \/ pthread_create_failure
    \/ InlineWorker
    \/ Worker
    \/ pthread_join
    \/ pthread_join_failure
    \/ FreeThreads
    \/ Sort
    \/ Collect
    \/ Unwind

Spec == Init /\ [][Next]_vars

\* The calling thread runs on from statement to statement; the system
\* calls that may fail are not bound to fail or to succeed.
MainThread ==
    \/ SingleThreaded
    \/ AllocateThreads
    \/ pthread_create
    \/ InlineWorker
    \/ pthread_join
    \/ FreeThreads
    \/ Sort
    \/ Collect

\* A thread that has been created is scheduled again and again (pthreads
\* over a fair kernel scheduler), and the scorer returns.
WorkerThread(k) == match_thread(k) \/ match_thread_return(k)

FairSpec ==
    /\ Spec
    /\ WF_vars(MainThread)
    /\ \A k \in WorkerIds : WF_vars(WorkerThread(k))

(***************************************************************************)
(* Properties.                                                             *)
(***************************************************************************)
Range(f) == { f[k] : k \in DOMAIN f }

Count(seq, x) == Cardinality({ k \in DOMAIN seq : seq[k] = x })

\* the score of a path in the current call
ScoreOf(path) ==
    CommandTMatch_initialize(path, abbrev, always_show_dot_files,
                             never_show_dot_files).score

Unlimited(opt) == opt.kind = "nil" \/ (opt.kind = "int" /\ opt.n = 0)

PositiveCount == Cardinality({ k \in DOMAIN paths : ScoreOf(paths[k]) > 0 })

\* C1: a call with no limit (limit absent or 0) returns only elements of the
\* candidate sequence, each path with score > 0 as often as it occurs there
\* and no path with score <= 0.
C1_UnlimitedResultIsThePositiveMatches ==
    (pc = "returned" /\ Unlimited(limit_option)) =>
        /\ Range(retval.ary) \subseteq Range(paths)
        /\ \A p \in Range(paths) :
             Count(retval.ary, p) =
                 IF ScoreOf(p) > 0 THEN Count(paths, p) ELSE 0

\* a threaded call without limit that drops a candidate and keeps a
\* duplicated one
C1_Witness ==
    /\ pc = "returned"
    /\ Unlimited(limit_option)
    /\ thread_count = DefaultThreadCount
    /\ Len(retval.ary) < path_count
    /\ \E p \in Range(paths) : Count(retval.ary, p) = 2

\* C2: for an abbreviation other than "" and ".", the returned sequence is
\* non-increasing in score and adjacent paths of equal score are in
\* comp_alpha order.
C2_ScoreOrderWithAlphabeticTieBreak ==
    (pc = "returned" /\ abbrev \notin { <<>>, <<46>> }) =>
        \A k \in 1..(Len(retval.ary) - 1) :
            LET x == [path |-> retval.ary[k], score |-> ScoreOf(retval.ary[k])]
                y == [path |-> retval.ary[k + 1],
                      score |-> ScoreOf(retval.ary[k + 1])]
            IN  /\ x.score >= y.score
                /\ x.score = y.score => comp_alpha(x, y) <= 0

\* a result under "a" with a strict drop in score and a tie between two
\* different paths
C2_Witness ==
    /\ pc = "returned"
    /\ abbrev = <<97>>
    /\ \E k \in 1..(Len(retval.ary) - 1) :
         ScoreOf(retval.ary[k]) > ScoreOf(retval.ary[k + 1])
    /\ \E k \in 1..(Len(retval.ary) - 1) :
         /\ ScoreOf(retval.ary[k]) = ScoreOf(retval.ary[k + 1])
         /\ retval.ary[k] # retval.ary[k + 1]

\* The Alphabetic order in the words of the specification: bytes are
\* compared over the shared prefix of length min(len(a), len(b)); on an
\* equal prefix the shorter string is first.
AlphabeticallyNotAfter(a, b) ==
    LET n    == Min(Len(a), Len(b))
        diff == { k \in 1..n : a[k] # b[k] }
    IN  IF diff = {}
        THEN Len(a) <= Len(b)
        ELSE LET first == CHOOSE k \in diff : \A j \in diff : k <= j
             IN  a[first] < b[first]

\* C3: for the abbreviation "" or ".", the returned paths are in Alphabetic
\* order whatever their scores are, and without a limit they are exactly the
\* paths with score > 0.
C3_AlphabeticOrderForEmptyOrDot ==
    (pc = "returned" /\ abbrev \in { <<>>, <<46>> }) =>
        /\ \A k \in 1..(Len(retval.ary) - 1) :
             AlphabeticallyNotAfter(retval.ary[k], retval.ary[k + 1])
        /\ Unlimited(limit_option) =>
             \A p \in Range(paths) :
                 Count(retval.ary, p) =
                     IF ScoreOf(p) > 0 THEN Count(paths, p) ELSE 0

\* "ab" right before "abc" in a result under "" or ".", and a path of lower
\* score returned before one of higher score
C3_Witness ==
    /\ pc = "returned"
    /\ abbrev \in { <<>>, <<46>> }
    /\ \E k \in 1..(Len(retval.ary) - 1) :
         retval.ary[k] = <<97, 98>> /\ retval.ary[k + 1] = <<97, 98, 99>>
    /\ \E k \in 1..(Len(retval.ary) - 1) :
         ScoreOf(retval.ary[k]) < ScoreOf(retval.ary[k + 1])

\* What a call with the same abbreviation and candidates returns without a
\* limit: the candidates scored in order, sorted, and collected with the
\* limit option opt (nil or 0).
ScoredCandidates ==
    [k \in 1..Len(paths) |->
        CommandTMatch_initialize(paths[k], abbrev, always_show_dot_files,
                                 never_show_dot_files)]

ResultsWith(opt) ==
    { CollectLoop(sorted, 0, Len(paths), InitialLimit(opt, Len(paths)), <<>>) :
        sorted \in qsort(ScoredCandidates, Len(paths), SortPolicy(abbrev)) }

\* C4: with limit k > 0 the result has min(k, number of candidates with
\* score > 0) elements and is the first k elements of the result without a
\* limit (limit nil, or 0).
C4_LimitIsPrefixOfUnlimited ==
    (pc = "returned" /\ limit_option.kind = "int" /\ limit_option.n > 0) =>
        /\ Len(retval.ary) = Min(limit_option.n, PositiveCount)
        /\ \A opt \in { o \in LimitOptions : Unlimited(o) } :
             \A full \in ResultsWith(opt) :
                 retval.ary = SubSeq(full, 1, Min(limit_option.n, Len(full)))

\* a limit that cuts the result, and a limit larger than the result
C4_Witness ==
    /\ pc = "returned"
    /\ limit_option.kind = "int"
    /\ limit_option.n = 2
    /\ PositiveCount > 2
    /\ Len(retval.ary) = 2

\* C5: whatever the number of workers and the interleaving of their steps,
\* the call returns what scoring the candidates one after the other in
\* index order, sorting and collecting returns: the result is a function of
\* the candidates, the abbreviation, the configuration and the limit.
C5_ResultIndependentOfWorkers ==
    pc = "returned" => retval.ary \in ResultsWith(limit_option)

\* a call that ran with 4 workers, one of them with two candidates, and
\* returned several paths
C5_Witness ==
    /\ pc = "returned"
    /\ USE_THREADS
    /\ thread_count = DefaultThreadCount
    /\ path_count > DefaultThreadCount
    /\ Len(retval.ary) >= 3

Spawned == { k \in WorkerIds : k < thread_count - 1 }

AllSlotsWritten == written = { k - 1 : k \in 1..path_count }

\* C6: while the calling thread sorts or collects, and when it has returned
\* a result, every spawned worker has terminated and been joined, the
\* inline worker has finished, and every slot of the buffer is written.
C6_JoinBarrier ==
    pc \in { "sort", "collect", "returned" } =>
        /\ \A k \in WorkerIds :
             workers[k].status # "running"
        /\ USE_THREADS =>
             \A k \in Spawned : workers[k].status = "joined"
        /\ workers[thread_count - 1].status = "finished"
        /\ AllSlotsWritten

\* the sort is about to start after three joins
C6_Witness ==
    /\ pc = "sort"
    /\ thread_count = DefaultThreadCount
    /\ path_count > DefaultThreadCount
    /\ \A k \in Spawned : workers[k].status = "joined"

\* C7: when pthread_create or pthread_join fails, every worker spawned in
\* the call has been joined before the error is raised.
C7_SpawnedWorkersJoinedBeforeError ==
    (pc = "raised" /\ error = "SystemCallError") =>
        \A k \in WorkerIds : workers[k].status \notin { "running", "finished" }

\* C8: when the call has exited, by return or by any raise, the match
\* buffer allocated by the call is released.
C8_BufferReleasedOnEveryExit ==
    CallOver => "matches" \notin allocated

\* C9: the collector runs only on a buffer in which every slot is scored,
\* and a call that raises hands no sequence to the caller: a sequence is
\* received only from a call that returned without error.
C9_NoPartialResult ==
    /\ pc \in { "collect", "returned" } => AllSlotsWritten
    /\ retval.returned => (pc = "returned" /\ error = "none")
    /\ (pc = "raised" \/ error # "none") => retval = NoValue

\* a join failed while slots were still unwritten, and the caller got the
\* exception and no sequence
C9_Witness ==
    /\ pc = "raised"
    /\ error = "SystemCallError"
    /\ i < thread_count - 1
    /\ \E k \in Spawned : workers[k].status = "joined"
    /\ ~AllSlotsWritten
    /\ retval = NoValue

\* C10: a nil abbrev raises ArgumentError before any work: paths() is not
\* called, nothing is allocated, no worker exists and the scorer is not
\* invoked; and a constructor that raised on a nil scanner has not set
\* @scanner.
C10_InvalidArgumentBeforeAnyWork ==
    /\ (pc = "raised" /\ error = "ArgumentError") =>
          /\ paths_calls = 0
          /\ allocated = {}
          /\ \A k \in WorkerIds : workers[k].status = "unborn"
          /\ scorer_args = {}
          /\ written = {}
    /\ constructed = "error" => scanner = "nil"

\* a call with a nil abbrev has raised
C10_Witness ==
    /\ constructed = "ok"
    /\ pc = "raised"
    /\ error = "ArgumentError"
    /\ paths_calls = 0

\* C11: the result of a call is determined by the abbreviation, the limit
\* and the candidate sequence (the scorer and the configuration being
\* fixed): it is the one sequence that scoring, sorting and collecting
\* these inputs can give, so two calls with the same inputs return the same
\* paths in the same order, also with duplicated candidates and with equal
\* scores.
C11_ResultDeterminedByInputs ==
    pc = "returned" => ResultsWith(limit_option) = { retval.ary }

\* a returned result with a path twice and two different paths of one score
C11_Witness ==
    /\ pc = "returned"
    /\ abbrev = <<97>>
    /\ \E p \in Range(paths) : Count(retval.ary, p) = 2
    /\ \E k \in 1..(Len(retval.ary) - 1) :
         /\ retval.ary[k] # retval.ary[k + 1]
         /\ ScoreOf(retval.ary[k]) = ScoreOf(retval.ary[k + 1])

\* a call that got past the check of its arguments
PastValidation ==
    pc # "idle" /\ ~(pc = "raised" /\ error = "ArgumentError")

\* C12: a call that passes validation has called scanner.paths() exactly
\* once and works on the sequence the scanner returned at that call; what it
\* returns are paths of the scanner's current candidate sequence, none more
\* often than it occurs there, whatever the candidates of earlier calls
\* were.
C12_OneSnapshotPerCall ==
    /\ PastValidation => (paths_calls = 1 /\ paths = candidates)
    /\ pc = "returned" =>
          \A p \in PathUniverse :
              Count(retval.ary, p) <= Count(candidates, p)

\* the scanner's sequence has changed from the initial empty one to one
\* without "b", and a call has returned paths of it
C12_Witness ==
    /\ pc = "returned"
    /\ paths_calls = 1
    /\ <<98>> \notin Range(candidates)
    /\ Len(candidates) = 2
    /\ Len(retval.ary) = 2

\* the slots (C indices) worker k has stored to
SlotsWrittenBy(k) == { n - 1 : n \in { m \in DOMAIN stores :
                                          k \in Range(stores[m]) } }

\* the slots of partition k of thread_count: k, k + W, k + 2W, ... below N
Partition(k) ==
    IF thread_count = 0 THEN {}
    ELSE { n \in 0..(path_count - 1) : n % thread_count = k }

\* C13: no slot of the buffer is stored to by two workers: the sets of
\* indices written by two different workers are disjoint in every state,
\* that is, all the stores to one slot are by one worker.
C13_WorkersWriteDisjointSlots ==
    \A n \in DOMAIN stores :
        \A a \in DOMAIN stores[n] : stores[n][a] = stores[n][1]

\* worker 0 of four is between its two candidates while another worker has
\* stored its one
C13_Witness ==
    /\ thread_count = DefaultThreadCount
    /\ workers[0].status = "running"
    /\ SlotsWrittenBy(0) = { 0 }
    /\ \E k \in Spawned \ { 0 } :
         workers[k].status = "finished" /\ SlotsWrittenBy(k) = { k }

\* every worker of the call has run to the end of match_thread and the
\* buffer is not sorted yet
ScoredAndUnsorted ==
    /\ pc \in { "inline", "join", "sort" }
    /\ \A k \in 0..(thread_count - 1) :
         workers[k].status \in { "finished", "joined" }

\* C14: worker k of W stores to the slots k, k + W, k + 2W, ... below N and
\* to no other, each once and in this order; when all workers have finished
\* and the buffer is not sorted yet, every slot i has been stored to exactly
\* once, by worker i mod W, and holds candidate i with its score under the
\* lowercased abbreviation and the Matcher's flags; the buffer has N slots
\* as long as it is allocated.
C14_StridedCoverage ==
    /\ \A n \in DOMAIN stores : Len(stores[n]) <= 1
    /\ \A k \in WorkerIds :
         LET slots == SlotsWrittenBy(k)
             part  == Partition(k)
         IN  /\ slots \subseteq part
             /\ workers[k].status = "running" =>
                   slots = { n \in part : n < workers[k].i }
             /\ workers[k].status \in { "finished", "joined" } =>
                   slots = part
    /\ ScoredAndUnsorted =>
          \A n \in 1..path_count :
              /\ stores[n] = << (n - 1) % thread_count >>
              /\ matches[n] = [path |-> paths[n], score |-> ScoreOf(paths[n])]
    /\ "matches" \in allocated =>
          (Len(matches) = path_count /\ path_count = Len(paths))

\* four workers are done with five candidates, worker 0 has stored slots 0
\* and 4, and the sort has not run
C14_Witness ==
    /\ pc = "sort"
    /\ thread_count = DefaultThreadCount
    /\ path_count = DefaultThreadCount + 1
    /\ SlotsWrittenBy(0) = { 0, DefaultThreadCount }
    /\ \A k \in Spawned \ { 0 } : SlotsWrittenBy(k) = { k }

Sign(n) == IF n > 0 THEN 1 ELSE IF n < 0 THEN -1 ELSE 0

\* the matches qsort is asked to compare in this call: the elements of the
\* scored buffer
Comparable == Range(matches)

\* C15: on the matches of a buffer about to be sorted, comp_alpha and
\* comp_score are antisymmetric (the sign of comp(x, y) is the opposite of
\* the sign of comp(y, x)), transitive, and total: comp_alpha(x, y) is 0
\* only for byte-identical paths, comp_score(x, y) is 0 only for equal
\* scores and byte-identical paths.
C15_ComparatorsConsistent ==
    pc = "sort" =>
        \A x \in Comparable : \A y \in Comparable :
            /\ Sign(comp_alpha(x, y)) = -Sign(comp_alpha(y, x))
            /\ Sign(comp_score(x, y)) = -Sign(comp_score(y, x))
            /\ comp_alpha(x, y) = 0 => x.path = y.path
            /\ comp_score(x, y) = 0 => (x.score = y.score /\ x.path = y.path)
            /\ \A z \in Comparable :
                 /\ (comp_alpha(x, y) <= 0 /\ comp_alpha(y, z) <= 0)
                       => comp_alpha(x, z) <= 0
                 /\ (comp_score(x, y) <= 0 /\ comp_score(y, z) <= 0)
                       => comp_score(x, z) <= 0

\* qsort is about to order by score a buffer that holds "ab" and its
\* extension "abc" with equal scores and a third path
C15_Witness ==
    /\ pc = "sort"
    /\ SortPolicy(abbrev) = "score"
    /\ Range(paths) = PathUniverse
    /\ ScoreOf(<<97, 98>>) = ScoreOf(<<97, 98, 99>>)
    /\ ScoreOf(<<98>>) # ScoreOf(<<97, 98>>)

\* the lowercase form of a string of ASCII bytes
LowerCased(str) ==
    [k \in DOMAIN str |-> IF str[k] \in 65..90 THEN str[k] + 32 ELSE str[k]]

\* the order policy for an abbreviation in lowercase: Alphabetic exactly
\* for "" and ".", Scored otherwise
PolicyFor(ab) == IF ab \in { <<>>, <<46>> } THEN "alpha" ELSE "score"

\* C16: the abbreviation is lowercased before anything is scored: the
\* local abbrev is the lowercase form of the argument; every call of the
\* scorer got that form together with the flags the Matcher was constructed
\* with; the sorted buffer holds the scores under that form, in the order
\* of the policy chosen on that form; so the result depends on the
\* argument through its lowercase form only, and abbreviations that differ
\* only in case give the same result.
C16_AbbreviationLowercasedOnce ==
    PastValidation =>
        LET lower == LowerCased(abbrev_arg.str)
        IN  /\ abbrev = lower
            /\ \A a \in scorer_args :
                 /\ a[1] = lower
                 /\ \E o \in ConstructorOptions :
                      /\ a[2] = o.always_show_dot_files
                      /\ a[3] = o.never_show_dot_files
            /\ pc \in { "collect", "returned" } =>
                  /\ \A k \in 1..path_count :
                       matches[k] = CommandTMatch_initialize(matches[k].path,
                                        lower, always_show_dot_files,
                                        never_show_dot_files)
                  /\ \A k \in 1..(path_count - 1) :
                       Compare(PolicyFor(lower), matches[k], matches[k + 1])
                           <= 0

\* a call with the abbreviation "A" has scored candidates and returned
\* some of them
C16_Witness ==
    /\ pc = "returned"
    /\ abbrev_arg = RString(<<65>>)
    /\ scorer_args # {}
    /\ Len(retval.ary) >= 2
    /\ Len(retval.ary) < path_count

\* the workers started so far, and those joined so far
Started == { k \in WorkerIds : workers[k].status # "unborn" }

Joined == { k \in WorkerIds : workers[k].status = "joined" }

RECURSIVE StoresBy(_, _)
StoresBy(k, n) ==
    IF n = 0 THEN 0
    ELSE Count(stores[n], k) + StoresBy(k, n - 1)

\* ceil(N / W)
CeilDiv(n, w) == (n + w - 1) \div w

InCall == pc \in { "allocated", "create", "inline", "join", "sort", "collect" }

\* C18: under fair scheduling of the calling thread and of the workers,
\* with a scorer that returns, a call that has started exits, by returning
\* or by raising: it does not stay at a join for ever; and a worker
\* processes at most ceil(N / W) candidates.
C18_CallTerminates ==
    /\ [](\A k \in WorkerIds :
            thread_count > 0 =>
                StoresBy(k, Len(stores)) <= CeilDiv(path_count, thread_count))
    /\ InCall ~> CallOver

\* the calling thread waits in the join loop for a worker that still runs
C18_Witness ==
    /\ pc = "join"
    /\ i < thread_count - 1
    /\ workers[i].status = "running"
    /\ StoresBy(i, Len(stores)) = 1

\* the paths of the buffer, in buffer order
BufferPaths == [k \in DOMAIN matches |-> matches[k].path]

\* C19: a call changes neither the Matcher's configuration nor the
\* candidate sequence: once constructed, @scanner and the two flags keep
\* the values the constructor gave them; no step of a call changes the
\* scanner's sequence or the array the call got from it; the sort changes
\* the order of the buffer only, and the collector leaves the sorted buffer
\* as it is.
C19_CallIsReadOnly ==
    /\ [](constructed = "ok" =>
            /\ scanner = "scanner"
            /\ \E o \in ConstructorOptions :
                 /\ always_show_dot_files = o.always_show_dot_files
                 /\ never_show_dot_files = o.never_show_dot_files)
    /\ [][/\ constructed = "ok" =>
               /\ constructed' = "ok"
               /\ scanner' = scanner
               /\ always_show_dot_files' = always_show_dot_files
               /\ never_show_dot_files' = never_show_dot_files
          /\ pc # "idle" => candidates' = candidates
          /\ (PastValidation /\ pc' # "idle") => paths' = paths
          /\ pc = "sort" =>
               \A p \in PathUniverse :
                   Count(BufferPaths', p) = Count(BufferPaths, p)
          /\ (pc = "collect" /\ pc' # "idle") => matches' = matches
         ]_vars

\* a call has returned from a buffer whose order is not the order of the
\* candidates, and the candidates are as the scanner gave them
C19_Witness ==
    /\ pc = "returned"
    /\ constructed = "ok"
    /\ BufferPaths # paths
    /\ paths = candidates
    /\ Len(retval.ary) >= 2

\* C20: when a call of the build with threads has returned its result, no
\* allocation of the call is live: the match buffer, the thread handle
\* array and the thread argument array are all released.
C20_AllocationsReleasedOnReturn ==
    (pc = "returned" /\ USE_THREADS) => allocated = {}

====
